---------------------------- MODULE Spec2Model ----------------------------
(***************************************************************************)
(* git-credential-keepassxc: a model of src/main.rs.                       *)
(*                                                                         *)
(* One invocation of the helper is a single process.  Its state is the     *)
(* configuration file it shares with other invocations, the process table  *)
(* it inspects, the messages it exchanges with KeePassXC, and the local    *)
(* variables of the subcommand that runs.  Every exchange with KeePassXC   *)
(* (one request sent, one response received) is one step, together with    *)
(* all the code that runs up to the next exchange.                         *)
(***************************************************************************)
EXTENDS Integers, Sequences, FiniteSets, TLC

(***************************************************************************)
(* Bounds of the model.                                                    *)
(***************************************************************************)
\* longest caller allow-list drawn for verify_caller
MaxCallers == 2
\* largest bounded retry budget of --unlock drawn
MaxRetries == 2
\* sleeps the model lets one database take (caps the unbounded budget)
PollCap == 4
\* longest entry list a GetLogins response carries
MaxEntries == 3

(***************************************************************************)
(* Option<T>: None is the empty sequence, Some(v) the sequence of v.       *)
(***************************************************************************)
None == << >>
Some(v) == << v >>
IsSome(o) == o # None
Unwrap(o) == o[1]
Opt(S) == {None} \cup {Some(v) : v \in S}

(***************************************************************************)
(* Result<T>: Ok(v) or Err(e).  A panic is kept apart from both.           *)
(***************************************************************************)
Ok(v) == [tag |-> "Ok", val |-> v, err |-> ""]
Err(e) == [tag |-> "Err", val |-> None, err |-> e]
Panic(e) == [tag |-> "Panic", val |-> None, err |-> e]
Running == [tag |-> "Running", val |-> None, err |-> ""]
IsOk(r) == r.tag = "Ok"
IsErr(r) == r.tag = "Err"

RECURSIVE SeqsUpTo(_, _)
\* all sequences over S of length at most n
SeqsUpTo(S, n) == IF n = 0 THEN {<< >>}
                  ELSE LET shorter == SeqsUpTo(S, n - 1)
                       IN  shorter \cup {Append(s, x) : s \in {t \in shorter : Len(t) = n - 1}, x \in S}

(***************************************************************************)
(* The data of the program.                                                *)
(***************************************************************************)
Paths == {"/usr/bin/git", "/usr/bin/evil"}
Ids == {0, 1000}

\* config::Caller, with whether it is stored encrypted
CallerEntries == [path : Paths, uid : Opt(Ids), gid : Opt(Ids), enc : BOOLEAN]

\* most databases a configuration file holds at the start
MaxDbs == 2
DbIds == 1..(MaxDbs + 1)
\* config::Database (the permanent key is not modelled), with whether it is stored encrypted
DatabaseEntries == [id : DbIds, group : {"Git"}, enc : BOOLEAN]

VARIABLES
    build,      \* compile-time configuration: [strict, platform]
    host,       \* what the operating system answers: the process table, the hardware token
    store,      \* the configuration file: [state, config]
    inv,        \* the command line of the invocation
    pc,         \* where the invocation stands
    verified,   \* what verify_caller returned in this invocation, Running before it is called
    sent,       \* requests sent to KeePassXC so far, per message type
    hostKey,    \* whether exchange_keys has returned the host public key
    w,          \* associated_databases: the locals of the loop and what it has done
    config_file, \* the Config the subcommand holds in memory, None before it has one
    req,        \* the git request read from stdin, None before it is read
    stdinRead,  \* whether stdin has been read to its end
    gl,         \* the GetLogins response and what get_logins and store_login make of it
    sl_req,     \* the SetLogin request store_login has built, None before
    database_id, \* configure: the id the Associate response carried, None before
    out,        \* the credentials written to stdout, None when nothing was written
    wrote,      \* whether this invocation has written the configuration file
    result,     \* what real_main returned
    exit,       \* the exit status of the process, None while it runs
    sl_response,    \* the response to the SetLogin request, None before it has come
    peer,       \* the entries KeePassXC holds for the url, None where they are not followed
    first,      \* of two store invocations in succession, what the first one did; None in it
    race,       \* two invocations at work on the file at once; None where there is one
    dropped,    \* erase: what read_git_request returned to be dropped, None before
    prompted    \* whether handle_secondary_encryption was entered in this invocation

vars == << build, host, store, inv, pc, verified, sent, hostKey, w, config_file, req, stdinRead,
          gl, sl_req, database_id, out, wrote, result, exit, sl_response, peer, first, race,
          dropped, prompted >>

(***************************************************************************)
(* config::Config.  The module is not part of the sources at hand; what    *)
(* main.rs needs of it is modelled from its use and from the design notes: *)
(* databases and callers are ordered, each stored either in the clear or   *)
(* encrypted, and an encrypted one is readable only with the key of one of *)
(* the encryption profiles.                                                *)
(***************************************************************************)
ConfigNew == [databases |-> << >>, callers |-> << >>, encryptions |-> << >>]

count_callers(config) == Len(config.callers)
count_databases(config) == Len(config.databases)
count_encryptions(config) == Len(config.encryptions)
IsEncrypted(x) == x.enc
count_encrypted_callers(config) == Len(SelectSeq(config.callers, IsEncrypted))
count_encrypted_databases(config) == Len(SelectSeq(config.databases, IsEncrypted))

\* the key protecting the encrypted part, recovered through one of the profiles
get_encryption_key(config) ==
    IF count_encryptions(config) > 0 /\ host.keyOk THEN Ok(Some("key"))
    ELSE Err("Failed to extract encryption key")

get_callers(config) ==
    IF count_encrypted_callers(config) > 0 /\ ~IsOk(get_encryption_key(config))
    THEN Err("Failed to decrypt callers")
    ELSE Ok(config.callers)

get_databases(config) ==
    IF count_encrypted_databases(config) > 0 /\ ~IsOk(get_encryption_key(config))
    THEN Err("Failed to decrypt databases")
    ELSE Ok(config.databases)

\* Config::read_from: the file as the invocation sees it
read_from ==
    IF store.state = "readable" THEN Ok(Some(store.config))
    ELSE Err("Failed to read configuration file")

(***************************************************************************)
(* verify_caller (main.rs 363-407).                                        *)
(***************************************************************************)
CallerDenied == "You are not allowed to use this program"

\* the filter of matching_callers: the unix build compares the caller's uid and
\* gid with those of proc, the helper's own process; the windows build compares
\* the path alone
CallerMatches(caller) ==
    IF build.platform = "unix"
    THEN /\ caller.path = host.ppath
         /\ (IsSome(caller.uid) => Unwrap(caller.uid) = host.uid)
         /\ (IsSome(caller.gid) => Unwrap(caller.gid) = host.gid)
    ELSE caller.path = host.ppath

\* the bootstrap test at the head of verify_caller
SkipWithoutCallers(config) == count_callers(config) = 0
SkipsVerification(config) ==
    /\ count_callers(config) = 0
    /\ (~build.strict \/ count_databases(config) = 0)

verify_caller(config) ==
    IF SkipsVerification(config) THEN Ok(None)
    ELSE IF host.lookup = "no_pid" THEN Err("Failed to retrieve current PID")
    ELSE IF host.lookup = "no_proc" THEN Err("Failed to retrieve information of current process")
    ELSE IF host.lookup = "no_ppid" THEN Err("Failed to retrieve parent PID")
    ELSE IF host.lookup = "no_pproc" THEN Err("Failed to retrieve parent process information")
    ELSE LET callers == get_callers(config)
         IN  IF ~IsOk(callers) THEN Err(callers.err)
             ELSE IF SelectSeq(callers.val, CallerMatches) = << >> THEN Err(CallerDenied)
             ELSE Ok(Some(host.ppath))

(***************************************************************************)
(* The messages of the KeePassXC protocol that main.rs sends.              *)
(***************************************************************************)
MsgTypes == {"ChangePublicKeys", "Associate", "CreateNewGroup", "TestAssociate",
             "GetDatabaseHash", "GetLogins", "SetLogin"}
NothingSent == [t \in MsgTypes |-> 0]
Sent(t) == [sent EXCEPT ![t] = @ + 1]

\* the locals and the history of associated_databases before its first database:
\* for the database i at hand the TestAssociate requests, sleeps and polls so far,
\* the polls that succeeded, the first and the last TestAssociate response and
\* the last thing done (event)
WaiterIdle == [i |-> 0, remain_retries |-> 0, success |-> FALSE, tasos |-> 0,
               sleeps |-> 0, polls |-> 0, okPolls |-> 0, first |-> None, last |-> None,
               event |-> "none", usable |-> << >>, log |-> << >>, done |-> None,
               trigger |-> None]

\* a process that has just entered real_main
Fresh ==
    /\ verified = Running
    /\ sent = NothingSent
    /\ hostKey = FALSE
    /\ w = WaiterIdle
    /\ config_file = None
    /\ req = None
    /\ stdinRead = FALSE
    /\ gl = None
    /\ sl_req = None
    /\ database_id = None
    /\ out = None
    /\ wrote = FALSE
    /\ result = Running
    /\ exit = None
    /\ sl_response = None
    /\ dropped = None
    /\ prompted = FALSE

\* one invocation, whose peer answers anything
Alone == peer = None /\ first = None /\ race = None

Builds == [strict : BOOLEAN, platform : {"unix", "windows"}]
Lookups == {"ok", "no_pid", "no_proc", "no_ppid", "no_pproc"}
Hosts == [lookup : Lookups, ppath : Paths, uid : Ids, gid : Ids, puid : Ids, pgid : Ids,
          keyOk : BOOLEAN]
\* the command line: the subcommand and the arguments main.rs reads
NoCommand == [cmd |-> "none", encryption |-> None, sub |-> "none", path |-> None,
              uid |-> None, gid |-> None, unlock |-> None, unlock_ok |-> TRUE]

(***************************************************************************)
(* SpecVerify: verify_caller applied to every configuration, build and     *)
(* process table within the bounds.                                        *)
(***************************************************************************)
\* allow-lists stored in the clear, of entries with any uid and with gid 0 or
\* none, and allow-lists of one entry stored encrypted
VerifyCallerEntries == {c \in CallerEntries : c.gid # Some(1000)}
VerifyCallerLists ==
    SeqsUpTo({c \in VerifyCallerEntries : ~c.enc}, MaxCallers)
    \cup {<< c >> : c \in {e \in VerifyCallerEntries : e.enc}}
VerifyDatabaseLists ==
    {<< >>, << [id |-> 1, group |-> "Git", enc |-> FALSE] >>}
\* a failed lookup is drawn once; the token matters to an encrypted list only
VerifyHosts ==
    {h \in Hosts : /\ h.ppath = "/usr/bin/git"
                   /\ (h.lookup # "ok" => h.uid = 0 /\ h.gid = 0 /\ h.puid = 0 /\ h.pgid = 0)}
\* the windows build reads no uid and no gid
WindowsHost(h) == h.uid = 0 /\ h.gid = 0 /\ h.puid = 0 /\ h.pgid = 0

InitVerify ==
    /\ build \in Builds
    /\ host \in VerifyHosts
    /\ build.platform = "windows" => WindowsHost(host)
    /\ \E cs \in VerifyCallerLists, ds \in VerifyDatabaseLists :
          /\ (host.keyOk => cs # << >> /\ cs[1].enc)
          /\ store = [state |-> "readable",
                      config |-> [databases |-> ds, callers |-> cs,
                                  encryptions |-> IF cs # << >> /\ cs[1].enc
                                                  THEN << "token" >> ELSE << >>]]
    /\ inv = NoCommand
    /\ pc = "verify"
    /\ Fresh
    /\ Alone

VerifyCaller ==
    /\ pc = "verify"
    /\ verified' = verify_caller(store.config)
    /\ pc' = "verified"
    /\ UNCHANGED << build, host, prompted, store, inv, sent, hostKey, w, config_file, req,
                    stdinRead, gl, sl_req, database_id, out, wrote, result, exit, sl_response,
                    peer, first, race, dropped >>

NextVerify == VerifyCaller
SpecVerify == InitVerify /\ [][NextVerify]_vars

(***************************************************************************)
(* read_git_request (main.rs 52-78).  What git writes on stdin is a record *)
(* of the fields of the credential protocol; parses is whether stdin     *)
(* could be read and parsed as a GitCredentialMessage.                     *)
(***************************************************************************)
\* the url of the request: the url field, or protocol://host/path
request_url(input) ==
    IF IsSome(input.url) THEN << "url", Unwrap(input.url) >>
    ELSE << "derived", Unwrap(input.protocol), Unwrap(input.host),
            IF IsSome(input.path) THEN Unwrap(input.path) ELSE "" >>

read_git_request(input) ==
    IF ~input.parses THEN Err("Failed to parse the git request")
    ELSE IF input.url = None /\ (input.protocol = None \/ input.host = None)
    THEN Err("Protocol and host are both required when URL is not provided")
    ELSE Ok(Some([username |-> input.username, password |-> input.password,
                  url |-> request_url(input)]))

(***************************************************************************)
(* The entries of a GetLogins response and the filters over them.          *)
(***************************************************************************)
KphGit == "KPH: git"
\* maps of custom string fields
FieldMaps == {KphGit :> "false", KphGit :> "true", "KPH: other" :> "false"}

\* get_logins_for, main.rs 427-431: expired entries are dropped
NotExpired(e) == e.expired = None \/ ~Unwrap(e.expired)
DropExpired(entries) == SelectSeq(entries, NotExpired)

\* main.rs 441-447: a map of string fields holding "KPH: git" = "false"
IsKphFalseField(m) == KphGit \in DOMAIN m /\ m[KphGit] = "false"
\* main.rs 440-454: the entry carries such a map
HasKphFalse(e) ==
    /\ IsSome(e.string_fields)
    /\ \E k \in 1..Len(Unwrap(e.string_fields)) : IsKphFalseField(Unwrap(e.string_fields)[k])
KeepsKph(e) == ~HasKphFalse(e)

\* filter_kph_logins, main.rs 435-458
filter_kph_keep_all(login_entries) ==
    [kph_false |-> Len(SelectSeq(login_entries, HasKphFalse)), entries |-> login_entries]
filter_kph_logins(login_entries) ==
    [kph_false |-> Len(SelectSeq(login_entries, HasKphFalse)),
     entries |-> SelectSeq(login_entries, KeepsKph)]

\* get_logins, main.rs 501-515: the candidates after the username hint
WithLogin(entries, username) == SelectSeq(entries, LAMBDA e : e.login = username)
narrow_never(username, entries) == entries
narrow_by_username(username, entries) ==
    IF Len(entries) > 1 /\ IsSome(username)
    THEN LET login_entries_name_matches == WithLogin(entries, Unwrap(username))
         IN  IF login_entries_name_matches # << >> THEN login_entries_name_matches
             ELSE entries
    ELSE entries

NoMatchingLogin == "No matching logins found"

\* get_logins, main.rs 492-523, on the entries of the response: what it keeps at
\* each stage, and the credentials it is about to write, if any
resolve_login(username, entries) ==
    LET login_entries == DropExpired(entries)
        filtered == filter_kph_logins(login_entries)
        candidates == IF filtered.entries = << >> THEN << >>
                      ELSE narrow_by_username(username, filtered.entries)
    IN  [entries |-> entries, login_entries |-> login_entries,
         kph_false |-> filtered.kph_false, kept |-> filtered.entries,
         candidates |-> candidates,
         git_resp |-> IF candidates = << >> THEN None
                      ELSE Some([username |-> Head(candidates).login,
                                 password |-> Head(candidates).password])]

\* store_login, main.rs 548-573: the existing entries with the login of the request
existing_logins(username, entries) ==
    LET login_entries == DropExpired(entries)
        filtered == filter_kph_logins(login_entries)
        named == WithLogin(filtered.entries, username)
    IN  [entries |-> entries, login_entries |-> login_entries,
         kph_false |-> filtered.kph_false, kept |-> filtered.entries,
         candidates |-> named, git_resp |-> None]

(***************************************************************************)
(* associated_databases (main.rs 80-162).  The closure of the filter runs  *)
(* once per configured database, in order; w holds its locals            *)
(* (remain_retries, success) for the database i at hand, what it has     *)
(* done for that database so far, and a summary of every database it has   *)
(* finished.                                                               *)
(***************************************************************************)
\* --unlock "interval,max_retries"
UnlockOptions == [interval : {100}, max_retries : 0..MaxRetries]

\* what TestAssociateRequest::send returns
TasoResponses ==
    {[tag |-> "Ok", success |-> s, kind |-> ""] : s \in Opt(BOOLEAN)}
    \cup {[tag |-> "Err", success |-> None, kind |-> k] :
             k \in {"locked", "keepass_error", "other_error"}}

\* main.rs 89
initial_retries(unlock_options) ==
    IF unlock_options = None THEN 0 ELSE Unwrap(unlock_options).max_retries

\* main.rs 95-104
database_locked(taso_resp) == taso_resp.tag = "Err" /\ taso_resp.kind = "locked"

\* main.rs 105-111: success after the response
taso_success_unless_refused(taso_resp, success) ==
    IF taso_resp.tag = "Ok"
    THEN IF IsSome(taso_resp.success) THEN Unwrap(taso_resp.success) ELSE TRUE
    ELSE success
taso_success(taso_resp, success) ==
    IF taso_resp.tag = "Ok"
    THEN IF IsSome(taso_resp.success) THEN Unwrap(taso_resp.success) ELSE FALSE
    ELSE success

\* main.rs 94: whether the request asks KeePassXC to prompt for unlock
unlock_trigger(unlock_options) == unlock_options # None

\* main.rs 118: the loop over one database is left after this attempt
stops_after_taso_once(success, locked, unlock_options) ==
    success \/ unlock_options = None
stops_after_taso(success, locked, unlock_options) ==
    success \/ ~locked \/ unlock_options = None

\* main.rs 122: the condition of the polling loop
keeps_polling_while_budget(remain_retries, unlock_options) == remain_retries > 0
keeps_polling(remain_retries, unlock_options) ==
    remain_retries > 0 \/ Unwrap(unlock_options).max_retries = 0

\* main.rs 138-140: the counter after a poll that failed
never_decrement(remain_retries, unlock_options) == remain_retries
after_failed_poll(remain_retries, unlock_options) ==
    IF Unwrap(unlock_options).max_retries # 0 THEN remain_retries - 1 ELSE remain_retries

\* main.rs 143: still not unlocked, break
gives_up(remain_retries, unlock_options) ==
    remain_retries = 0 /\ Unwrap(unlock_options).max_retries # 0

\* the closure is entered for database i (main.rs 89-90)
EnterDatabase(wcur, i) ==
    [wcur EXCEPT !.i = i, !.remain_retries = initial_retries(inv.unlock),
                 !.success = FALSE, !.tasos = 0, !.sleeps = 0, !.polls = 0,
                 !.okPolls = 0, !.first = None, !.last = None, !.event = "none",
                 !.trigger = None]

\* the closure returns success (main.rs 147): the database is kept or dropped,
\* and the filter goes on to the next database, if any.  Of a finished database
\* w keeps the last TestAssociate response (log), and of the database finished
\* last all that was done for it (done)
FinishDatabase(wcur, dbs) ==
    LET summary == [id |-> dbs[wcur.i].id, accepted |-> wcur.success,
                    tasos |-> wcur.tasos, sleeps |-> wcur.sleeps, polls |-> wcur.polls,
                    okPolls |-> wcur.okPolls, first |-> wcur.first, last |-> wcur.last,
                    remain_retries |-> wcur.remain_retries, trigger |-> wcur.trigger]
        done == [wcur EXCEPT !.log = Append(@, wcur.last), !.done = Some(summary),
                             !.usable = IF wcur.success THEN Append(@, dbs[wcur.i]) ELSE @]
    IN  IF wcur.i < Len(dbs)
        THEN [w |-> EnterDatabase(done, wcur.i + 1), at |-> "taso"]
        ELSE [w |-> done, at |-> "done"]

\* main.rs 142-146: after the polling loop
AfterWhile(wcur, dbs) ==
    IF gives_up(wcur.remain_retries, inv.unlock) THEN FinishDatabase(wcur, dbs)
    ELSE [w |-> wcur, at |-> "taso"]

\* main.rs 122: the head of the polling loop
WhileLoop(wcur, dbs) ==
    IF keeps_polling(wcur.remain_retries, inv.unlock) THEN [w |-> wcur, at |-> "sleep"]
    ELSE AfterWhile(wcur, dbs)

\* main.rs 92-120: one TestAssociate attempt and its response
OnTestAssociate(wcur, taso_resp, dbs) ==
    LET success == taso_success(taso_resp, wcur.success)
        w1 == [wcur EXCEPT !.success = success, !.tasos = @ + 1,
                           !.first = IF @ = None THEN Some(taso_resp) ELSE @,
                           !.last = Some(taso_resp), !.event = "taso",
                           !.trigger = Some(unlock_trigger(inv.unlock))]
    IN  IF stops_after_taso(success, database_locked(taso_resp), inv.unlock)
        THEN FinishDatabase(w1, dbs)
        ELSE WhileLoop(w1, dbs)

\* main.rs 129-131
OnSleep(wcur) == [w |-> [wcur EXCEPT !.sleeps = @ + 1, !.event = "sleep"], at |-> "poll"]

\* main.rs 133-141: one GetDatabaseHash poll and whether it succeeded
OnPoll(wcur, ok, dbs) ==
    LET w1 == [wcur EXCEPT !.polls = @ + 1, !.okPolls = IF ok THEN @ + 1 ELSE @,
                           !.event = IF ok THEN "poll_ok" ELSE "poll_failed"]
    IN  IF ok THEN AfterWhile(w1, dbs)
        ELSE WhileLoop([w1 EXCEPT !.remain_retries = after_failed_poll(@, inv.unlock)], dbs)

\* associated_databases has returned: of w, its caller holds the databases alone
Returned(wcur) == [WaiterIdle EXCEPT !.usable = wcur.usable]

NoValidDatabase == "No valid database associations found in configuration file"

\* main.rs 85-87: the filter starts, unless the databases cannot be read
StartAssociated(config) ==
    LET dbs == get_databases(config)
    IN  IF ~IsOk(dbs) THEN [w |-> WaiterIdle, at |-> "error", err |-> dbs.err]
        ELSE IF dbs.val = << >> THEN [w |-> WaiterIdle, at |-> "done", err |-> ""]
        ELSE [w |-> EnterDatabase(WaiterIdle, 1), at |-> "taso", err |-> ""]

(***************************************************************************)
(* store_login (main.rs 575-650).                                          *)
(***************************************************************************)
\* main.rs 575-629: given login_entries (Ok with the existing entries, or Err),
\* store_login returns at once or builds the SetLogin request
SetLoginFor(config, git_req, database, uuid) ==
    [url |-> git_req.url, database_id |-> database.id,
     login |-> Unwrap(git_req.username), password |-> Unwrap(git_req.password),
     group |-> database.group, uuid |-> uuid]

set_login_request_always_new(config, git_req, login_entries) ==
    LET databases == get_databases(config)
    IN  IF IsOk(login_entries)
           /\ Head(login_entries.val).login = Unwrap(git_req.username)
           /\ Head(login_entries.val).password = Unwrap(git_req.password)
        THEN [kind |-> "return", res |-> Ok(None), request |-> None]
        ELSE IF ~IsOk(databases)
        THEN [kind |-> "return", res |-> Err(databases.err), request |-> None]
        ELSE IF databases.val = << >>
        THEN [kind |-> "return", res |-> Panic("called Option::unwrap() on a None value"),
              request |-> None]
        ELSE [kind |-> "send", res |-> Running,
              request |-> Some(SetLoginFor(config, git_req, Head(databases.val), None))]
set_login_request(config, git_req, login_entries) ==
    LET databases == get_databases(config)
    IN  IF IsOk(login_entries)
        THEN LET login_entry == Head(login_entries.val)
             IN  IF /\ login_entry.login = Unwrap(git_req.username)
                    /\ login_entry.password = Unwrap(git_req.password)
                 THEN [kind |-> "return", res |-> Ok(None), request |-> None]
                 ELSE IF ~IsOk(databases)
                 THEN [kind |-> "return", res |-> Err(databases.err), request |-> None]
                 ELSE IF Len(databases.val) > 1
                 THEN [kind |-> "return", res |-> Panic("not implemented"), request |-> None]
                 ELSE [kind |-> "send", res |-> Running,
                       request |-> Some(SetLoginFor(config, git_req, Head(databases.val),
                                                    Some(login_entry.uuid)))]
        ELSE IF ~IsOk(databases)
        THEN [kind |-> "return", res |-> Err(databases.err), request |-> None]
        ELSE IF databases.val = << >>
        THEN [kind |-> "return", res |-> Panic("called Option::unwrap() on a None value"),
              request |-> None]
        ELSE [kind |-> "send", res |-> Running,
              request |-> Some(SetLoginFor(config, git_req, Head(databases.val), None))]

\* what SetLoginRequest::send returns
SetLoginResponses ==
    {[tag |-> "Err", success |-> None, error |-> None]}
    \cup {[tag |-> "Ok", success |-> s, error |-> e] :
             s \in Opt(BOOLEAN), e \in Opt({"", "success", "Access denied"})}

\* KeePassXC on a SetLogin request: with the uuid of an entry that entry is
\* updated in place, without one a new entry is created after the others
set_login_applied(resp) == resp.tag = "Ok" /\ resp.success = Some(TRUE)
peer_after(entries, request) ==
    IF request.uuid = None
    THEN Append(entries, [login |-> request.login, password |-> request.password,
                          uuid |-> Len(entries) + 1, string_fields |-> None,
                          expired |-> None])
    ELSE [k \in 1..Len(entries) |->
            IF entries[k].uuid = Unwrap(request.uuid)
            THEN [entries[k] EXCEPT !.login = request.login, !.password = request.password]
            ELSE entries[k]]

\* main.rs 630-650
store_result_by_flag(sl_resp) ==
    IF sl_resp.tag = "Err" THEN Err("Failed to send the SetLogin request")
    ELSE IF IsSome(sl_resp.success)
    THEN IF Unwrap(sl_resp.success) THEN Ok(None) ELSE Err("Failed to store login")
    ELSE Err("Set login request failed")
store_result(sl_resp) ==
    IF sl_resp.tag = "Err" THEN Err("Failed to send the SetLogin request")
    ELSE IF IsSome(sl_resp.success)
    THEN IF /\ Unwrap(sl_resp.success)
            /\ (\/ sl_resp.error = None
                \/ Unwrap(sl_resp.error) = ""
                \/ Unwrap(sl_resp.error) = "success")
         THEN Ok(None)
         ELSE Err("Failed to store login")
    ELSE Err("Set login request failed")

(***************************************************************************)
(* main (main.rs 743-751): an error of real_main is logged; main then      *)
(* returns, so the process ends with status 0.  A panic ends it with the   *)
(* status of the Rust runtime.                                             *)
(***************************************************************************)
main_exit(res) ==
    IF IsErr(res) THEN [code |-> 0, logged |-> TRUE]
    ELSE IF res.tag = "Panic" THEN [code |-> 101, logged |-> FALSE]
    ELSE [code |-> 0, logged |-> FALSE]

\* real_main returns res and the process ends
Finish(res) ==
    /\ result' = res
    /\ exit' = Some(main_exit(res))
    /\ pc' = "exited"

(***************************************************************************)
(* The operations of config::Config that change it, modelled like the      *)
(* rest of that module.  Each returns Ok with the new Config, or Err.      *)
(***************************************************************************)
\* a new profile is refused when it exists already, or when profiles exist and
\* their key cannot be recovered; the empty profile stands for the existing ones
add_encryption(config, profile) ==
    IF profile = ""
    THEN IF count_encryptions(config) = 0 THEN Err("No encryption profile") ELSE Ok(config)
    ELSE IF \E k \in 1..Len(config.encryptions) : config.encryptions[k] = profile
    THEN Err("Encryption profile already exists")
    ELSE IF count_encryptions(config) > 0 /\ ~IsOk(get_encryption_key(config))
    THEN Err("Failed to extract encryption key")
    ELSE Ok([config EXCEPT !.encryptions = Append(@, profile)])

add_database(config, database, encrypted) ==
    IF encrypted /\ ~IsOk(get_encryption_key(config)) THEN Err("Failed to encrypt database")
    ELSE Ok([config EXCEPT !.databases = Append(@, [database EXCEPT !.enc = encrypted])])

add_caller(config, caller, encrypted) ==
    IF encrypted /\ ~IsOk(get_encryption_key(config)) THEN Err("Failed to encrypt caller")
    ELSE Ok([config EXCEPT !.callers = Append(@, [caller EXCEPT !.enc = encrypted])])

SetEnc(s, b) == [k \in 1..Len(s) |-> [s[k] EXCEPT !.enc = b]]

encrypt_databases(config) ==
    IF count_encrypted_databases(config) < count_databases(config)
       /\ ~IsOk(get_encryption_key(config))
    THEN Err("Failed to encrypt databases")
    ELSE Ok([config EXCEPT !.databases = SetEnc(@, TRUE)])

encrypt_callers(config) ==
    IF count_encrypted_callers(config) < count_callers(config)
       /\ ~IsOk(get_encryption_key(config))
    THEN Err("Failed to encrypt callers")
    ELSE Ok([config EXCEPT !.callers = SetEnc(@, TRUE)])

decrypt_databases(config) ==
    IF count_encrypted_databases(config) > 0 /\ ~IsOk(get_encryption_key(config))
    THEN Err("Failed to decrypt databases")
    ELSE Ok([config EXCEPT !.databases = SetEnc(@, FALSE)])

decrypt_callers(config) ==
    IF count_encrypted_callers(config) > 0 /\ ~IsOk(get_encryption_key(config))
    THEN Err("Failed to decrypt callers")
    ELSE Ok([config EXCEPT !.callers = SetEnc(@, FALSE)])

clear_encryptions(config) == [config EXCEPT !.encryptions = << >>]
clear_callers(config) == [config EXCEPT !.callers = << >>]

(***************************************************************************)
(* The subcommands that talk to no one but the file: what each returns,    *)
(* what verify_caller returned to it (Running when it was not called), the *)
(* Config it ends with and whether it wrote the file.                      *)
(***************************************************************************)
Outcome(res, v, cfg, wr) ==
    [res |-> res, verified |-> v, config_file |-> cfg, wrote |-> wr, prompted |-> FALSE]

\* Config::write_to, which the file system lets succeed or not
write_to(cfg, v, writeOk) ==
    IF writeOk THEN Outcome(Ok(None), v, Some(cfg), TRUE)
    ELSE Outcome(Err("Failed to write configuration file"), v, Some(cfg), FALSE)

\* main.rs 213-221, 265-273: the profile is added, after handle_secondary_encryption
\* (164-178) when profiles exist; promptOk is whether its reads of stdin succeed
secondary_encryption(cfg, encryption) ==
    encryption # None /\ count_encryptions(cfg) > 0 /\ Unwrap(encryption) # ""

with_encryption(cfg, encryption, promptOk) ==
    IF encryption = None THEN Ok(cfg)
    ELSE IF secondary_encryption(cfg, encryption) /\ ~promptOk
    THEN Err("Failed to read from stdin")
    ELSE add_encryption(cfg, Unwrap(encryption))

\* the outcome o of a subcommand that has come to the point where it calls
\* handle_secondary_encryption when profiles exist (main.rs 214-216, 266-268)
AfterPrompt(o, cfg, encryption) ==
    [o EXCEPT !.prompted = secondary_encryption(cfg, encryption)]

\* main.rs 202-208, 317-322: read existing or create new config
read_or_new ==
    IF IsOk(read_from)
    THEN [config_file |-> Unwrap(read_from.val), verified |-> verify_caller(Unwrap(read_from.val))]
    ELSE [config_file |-> ConfigNew, verified |-> Running]

\* configure, main.rs 202-234, once the group has been created
configure_config(id, promptOk, writeOk) ==
    LET r == read_or_new
        v == r.verified
        c1 == with_encryption(r.config_file, inv.encryption, promptOk)
        c2 == add_database(c1.val, [id |-> id, group |-> "Git", enc |-> FALSE],
                           IsSome(inv.encryption))
    IN  IF IsErr(v) THEN Outcome(Err(v.err), v, None, FALSE)
        ELSE AfterPrompt(IF ~IsOk(c1) THEN Outcome(Err(c1.err), v, Some(r.config_file), FALSE)
                         ELSE IF ~IsOk(c2) THEN Outcome(Err(c2.err), v, Some(c1.val), FALSE)
                         ELSE write_to(c2.val, v, writeOk),
                         r.config_file, inv.encryption)

\* encrypt, main.rs 237-286
encrypt(promptOk, writeOk) ==
    LET c0 == Unwrap(read_from.val)
        v == verify_caller(c0)
        count_databases_to_encrypt == count_databases(c0) - count_encrypted_databases(c0)
        count_callers_to_encrypt == count_callers(c0) - count_encrypted_callers(c0)
        c1 == with_encryption(c0, inv.encryption, promptOk)
        c2 == encrypt_databases(c1.val)
        c3 == encrypt_callers(c2.val)
    IN  IF ~IsOk(read_from) THEN Outcome(Err(read_from.err), Running, None, FALSE)
        ELSE IF ~IsOk(v) THEN Outcome(Err(v.err), v, Some(c0), FALSE)
        ELSE IF /\ count_databases_to_encrypt = 0
                /\ count_callers_to_encrypt = 0
                /\ (inv.encryption = None \/ Unwrap(inv.encryption) = "")
        THEN Outcome(Ok(None), v, Some(c0), FALSE)
        ELSE AfterPrompt(IF ~IsOk(c1) THEN Outcome(Err(c1.err), v, Some(c0), FALSE)
                         ELSE IF ~IsOk(c2) THEN Outcome(Err(c2.err), v, Some(c1.val), FALSE)
                         ELSE IF ~IsOk(c3) THEN Outcome(Err(c3.err), v, Some(c2.val), FALSE)
                         ELSE write_to(c3.val, v, writeOk),
                         c0, inv.encryption)

\* decrypt, main.rs 288-313
decrypt(writeOk) ==
    LET c0 == Unwrap(read_from.val)
        v == verify_caller(c0)
        c1 == decrypt_databases(c0)
        c2 == decrypt_callers(c1.val)
        c3 == IF count_encrypted_databases(c2.val) = 0 /\ count_encrypted_callers(c2.val) = 0
              THEN clear_encryptions(c2.val) ELSE c2.val
    IN  IF ~IsOk(read_from) THEN Outcome(Err(read_from.err), Running, None, FALSE)
        ELSE IF ~IsOk(v) THEN Outcome(Err(v.err), v, Some(c0), FALSE)
        ELSE IF count_encrypted_databases(c0) = 0 /\ count_encrypted_callers(c0) = 0
        THEN Outcome(Ok(None), v, Some(c0), FALSE)
        ELSE IF ~IsOk(c1) THEN Outcome(Err(c1.err), v, Some(c0), FALSE)
        ELSE IF ~IsOk(c2) THEN Outcome(Err(c2.err), v, Some(c1.val), FALSE)
        ELSE write_to(c3, v, writeOk)

\* u32::from_str on the value of --uid or --gid
IdArgs == [valid : BOOLEAN, value : Ids]
ParsedId(arg) == IF arg = None THEN None ELSE Some(Unwrap(arg).value)

\* caller, main.rs 315-361
caller(writeOk) ==
    LET r == read_or_new
        v == r.verified
        c0 == r.config_file
        new == [path |-> Unwrap(inv.path), uid |-> ParsedId(inv.uid),
                gid |-> ParsedId(inv.gid), enc |-> FALSE]
        c1 == IF inv.encryption = None THEN Ok(c0) ELSE add_encryption(c0, Unwrap(inv.encryption))
        c2 == add_caller(c1.val, new, IsSome(inv.encryption))
    IN  IF IsErr(v) THEN Outcome(Err(v.err), v, None, FALSE)
        ELSE IF inv.sub = "add"
        THEN IF inv.path = None THEN Outcome(Err("Must specify path"), v, Some(c0), FALSE)
             ELSE IF IsSome(inv.uid) /\ ~Unwrap(inv.uid).valid
             THEN Outcome(Err("Invalid UID"), v, Some(c0), FALSE)
             ELSE IF IsSome(inv.gid) /\ ~Unwrap(inv.gid).valid
             THEN Outcome(Err("Invalid GID"), v, Some(c0), FALSE)
             ELSE IF ~IsOk(c1) THEN Outcome(Err(c1.err), v, Some(c0), FALSE)
             ELSE IF ~IsOk(c2) THEN Outcome(Err(c2.err), v, Some(c1.val), FALSE)
             ELSE write_to(c2.val, v, writeOk)
        ELSE IF inv.sub = "clear" THEN write_to(clear_callers(c0), v, writeOk)
        ELSE Outcome(Err("No subcommand selected"), v, Some(c0), FALSE)

\* the file after the subcommand
StoreAfter(o) ==
    IF o.wrote THEN [state |-> "readable", config |-> Unwrap(o.config_file)] ELSE store

(***************************************************************************)
(* The steps of one invocation.                                            *)
(***************************************************************************)
envVars == << build, host, inv, first, race, dropped >>

\* real_main, main.rs 718-740: the arguments are refused before any subcommand runs
Subcommands == {"configure", "encrypt", "decrypt", "caller", "get", "store", "erase"}
real_main_args ==
    IF ~inv.unlock_ok THEN Err("Failed to parse unlock options")
    ELSE IF inv.cmd = "none" THEN Err("No subcommand selected")
    ELSE IF inv.cmd \notin Subcommands THEN Err("Unrecognised subcommand")
    ELSE Ok(None)

RejectArguments ==
    /\ pc = "start"
    /\ ~IsOk(real_main_args)
    /\ Finish(Err(real_main_args.err))
    /\ UNCHANGED << envVars, peer, sl_response, prompted, store, verified, sent, hostKey, w,
                    config_file, req, stdinRead, gl, sl_req, database_id, out, wrote >>

\* the subcommand cmd is entered
Entered(cmd) == pc = "start" /\ IsOk(real_main_args) /\ inv.cmd = cmd

\* a subcommand that talks to no one but the file has run to its end
FileOnly(o) ==
    /\ verified' = o.verified
    /\ config_file' = o.config_file
    /\ store' = StoreAfter(o)
    /\ wrote' = o.wrote
    /\ prompted' = o.prompted
    /\ Finish(o.res)

Encrypt ==
    /\ Entered("encrypt")
    /\ \E promptOk \in BOOLEAN, writeOk \in BOOLEAN : FileOnly(encrypt(promptOk, writeOk))
    /\ UNCHANGED << envVars, peer, sl_response, sent, hostKey, w, req, stdinRead, gl, sl_req,
                    database_id, out >>

Decrypt ==
    /\ Entered("decrypt")
    /\ \E writeOk \in BOOLEAN : FileOnly(decrypt(writeOk))
    /\ UNCHANGED << envVars, peer, sl_response, sent, hostKey, w, req, stdinRead, gl, sl_req,
                    database_id, out >>

CallerCommand ==
    /\ Entered("caller")
    /\ \E writeOk \in BOOLEAN : FileOnly(caller(writeOk))
    /\ UNCHANGED << envVars, peer, sl_response, sent, hostKey, w, req, stdinRead, gl, sl_req,
                    database_id, out >>

\* erase_login, main.rs 653-660: the request is read and what read_git_request
\* returns is dropped
erase_login_or_fail(read) == IF IsOk(read) THEN Ok(None) ELSE Err(read.err)
erase_login(read) == Ok(None)

Erase(Inputs) ==
    /\ Entered("erase")
    /\ \E input \in Inputs :
          /\ stdinRead' = TRUE
          /\ dropped' = Some(read_git_request(input))
          /\ Finish(erase_login(read_git_request(input)))
    /\ UNCHANGED << build, host, prompted, inv, first, race, peer, sl_response, store,
                    verified, sent, hostKey, w, config_file, req, gl, sl_req, database_id, out,
                    wrote >>

\* what the caller of associated_databases does with its outcome: get_logins_for
\* goes on to GetLogins; get_logins returns the error; store_login keeps the
\* error as login_entries and goes on to build its request (main.rs 548-629)
StoreBuilds(config, git_req, login_entries) ==
    LET b == set_login_request(config, git_req, login_entries)
    IN  IF b.kind = "send"
        THEN /\ sl_req' = b.request
             /\ pc' = "set_login"
             /\ UNCHANGED << result, exit >>
        ELSE /\ Finish(b.res)
             /\ UNCHANGED sl_req

Associated(a, config, git_req) ==
    /\ w' = a.w
    /\ IF a.at \in {"taso", "sleep", "poll"}
       THEN pc' = a.at /\ UNCHANGED << result, exit, sl_req >>
       ELSE IF a.at = "done" /\ a.w.usable # << >>
       THEN pc' = "get_logins" /\ UNCHANGED << result, exit, sl_req >>
       ELSE LET e == IF a.at = "done" THEN NoValidDatabase ELSE a.err
            IN  IF inv.cmd = "get" THEN Finish(Err(e)) /\ UNCHANGED sl_req
                ELSE StoreBuilds(config, git_req, Err(e))

\* get_logins 464-467, store_login 534-537: the file is read, the caller verified
\* and the request read from stdin
BeginCredential(Inputs) ==
    /\ pc = "start" /\ IsOk(real_main_args) /\ inv.cmd \in {"get", "store"}
    /\ IF ~IsOk(read_from)
       THEN /\ Finish(Err(read_from.err))
            /\ UNCHANGED << verified, config_file, req, stdinRead >>
       ELSE /\ config_file' = read_from.val
            /\ verified' = verify_caller(Unwrap(read_from.val))
            /\ IF ~IsOk(verified')
               THEN /\ Finish(Err(verified'.err))
                    /\ UNCHANGED << req, stdinRead >>
               ELSE \E input \in Inputs :
                       /\ stdinRead' = TRUE
                       /\ IF IsOk(read_git_request(input))
                          THEN /\ req' = read_git_request(input).val
                               /\ pc' = "start_session"
                               /\ UNCHANGED << result, exit >>
                          ELSE /\ Finish(Err(read_git_request(input).err))
                               /\ UNCHANGED req
    /\ UNCHANGED << envVars, peer, sl_response, prompted, store, sent, hostKey, w, gl, sl_req,
                    database_id, out, wrote >>

\* what ChangePublicKeysRequest::send returns: an error, a response without a
\* public key, or the public key of the host
CpkResponses == {"error", "no_key", "key"}

\* exchange_keys, main.rs 26-33
exchange_keys_whatever_key(cpr_resp) ==
    IF cpr_resp = "error" THEN Err("Failed to send ChangePublicKeys") ELSE Ok(None)
exchange_keys(cpr_resp) ==
    IF cpr_resp = "error" THEN Err("Failed to send ChangePublicKeys")
    ELSE IF cpr_resp = "no_key" THEN Err("Failed to retrieve host public key")
    ELSE Ok(None)

\* start_session, main.rs 26-50, and the code of the subcommand up to its next request
StartSession ==
    /\ IsOk(real_main_args)
    /\ pc = IF inv.cmd = "configure" THEN "start" ELSE "start_session"
    /\ sent' = Sent("ChangePublicKeys")
    /\ \E cpr_resp \in CpkResponses :
          IF ~IsOk(exchange_keys(cpr_resp))
          THEN /\ Finish(Err(exchange_keys(cpr_resp).err))
               /\ UNCHANGED << hostKey, w, sl_req >>
          ELSE /\ hostKey' = (cpr_resp = "key")
               /\ IF inv.cmd = "configure"
                  THEN pc' = "associate" /\ UNCHANGED << w, sl_req, result, exit >>
                  ELSE IF inv.cmd = "store" /\ Unwrap(req).username = None
                  THEN Finish(Err("Username is missing")) /\ UNCHANGED << w, sl_req >>
                  ELSE IF inv.cmd = "store" /\ Unwrap(req).password = None
                  THEN Finish(Err("Password is missing")) /\ UNCHANGED << w, sl_req >>
                  ELSE Associated(StartAssociated(Unwrap(config_file)), Unwrap(config_file),
                                  Unwrap(req))
    /\ UNCHANGED << envVars, peer, sl_response, prompted, store, verified, config_file, req,
                    stdinRead, gl, database_id, out, wrote >>

\* main.rs 92-120
TestAssociate ==
    /\ pc = "taso"
    /\ sent' = Sent("TestAssociate")
    /\ \E taso_resp \in TasoResponses :
          Associated(OnTestAssociate(w, taso_resp, get_databases(Unwrap(config_file)).val),
                     Unwrap(config_file), Unwrap(req))
    /\ UNCHANGED << envVars, peer, sl_response, prompted, store, verified, hostKey,
                    config_file, req, stdinRead, gl, database_id, out, wrote >>

\* main.rs 123-131
Sleep ==
    /\ pc = "sleep"
    /\ w.sleeps < PollCap
    /\ Associated(OnSleep(w), Unwrap(config_file), Unwrap(req))
    /\ UNCHANGED << envVars, peer, sl_response, prompted, store, verified, sent, hostKey,
                    config_file, req, stdinRead, gl, database_id, out, wrote >>

\* main.rs 133-146
PollDatabaseHash ==
    /\ pc = "poll"
    /\ sent' = Sent("GetDatabaseHash")
    /\ \E ok \in BOOLEAN :
          Associated(OnPoll(w, ok, get_databases(Unwrap(config_file)).val),
                     Unwrap(config_file), Unwrap(req))
    /\ UNCHANGED << envVars, peer, sl_response, prompted, store, verified, hostKey,
                    config_file, req, stdinRead, gl, database_id, out, wrote >>

\* get_logins_for 423-432 and what get_logins (492-527) or store_login (548-629)
\* does with the entries
GetLogins(EntryLists) ==
    /\ pc = "get_logins"
    /\ sent' = Sent("GetLogins")
    /\ \E failed \in BOOLEAN :
          IF inv.cmd = "get"
          THEN /\ UNCHANGED sl_req
               /\ IF failed
                  THEN Finish(Err("Failed to send GetLogins")) /\ UNCHANGED << gl, out >>
                  ELSE \E entries \in EntryLists :
                       LET r == resolve_login(Unwrap(req).username, entries)
                       IN  /\ gl' = Some(r)
                           /\ IF r.git_resp = None
                              THEN Finish(Err(NoMatchingLogin)) /\ UNCHANGED out
                              ELSE \E stdoutOk \in BOOLEAN :
                                   IF stdoutOk
                                   THEN Finish(Ok(None)) /\ out' = r.git_resp
                                   ELSE /\ Finish(Err("Failed to write to stdout"))
                                        /\ UNCHANGED out
          ELSE /\ UNCHANGED out
               /\ IF failed
                  THEN /\ UNCHANGED gl
                       /\ StoreBuilds(Unwrap(config_file), Unwrap(req),
                                      Err("Failed to send GetLogins"))
                  ELSE \E entries \in EntryLists :
                       LET r == existing_logins(Unwrap(Unwrap(req).username), entries)
                       IN  /\ gl' = Some(r)
                           /\ StoreBuilds(Unwrap(config_file), Unwrap(req),
                                          IF r.candidates = << >>
                                          THEN Err("No remaining logins")
                                          ELSE Ok(r.candidates))
    /\ w' = Returned(w)
    /\ UNCHANGED << envVars, peer, sl_response, prompted, store, verified, hostKey,
                    config_file, req, stdinRead, database_id, wrote >>

\* store_login, main.rs 630-650, and what KeePassXC holds after the request
SetLogin ==
    /\ pc = "set_login"
    /\ sent' = Sent("SetLogin")
    /\ \E resp \in SetLoginResponses :
          /\ sl_response' = Some(resp)
          /\ Finish(store_result(resp))
          /\ peer' = IF peer # None /\ set_login_applied(resp)
                     THEN Some(peer_after(Unwrap(peer), Unwrap(sl_req)))
                     ELSE peer
    /\ w' = Returned(w)
    /\ UNCHANGED << envVars, prompted, store, verified, hostKey, config_file, req, stdinRead,
                    gl, sl_req, database_id, out, wrote >>

\* configure, main.rs 189-191
AssociateResponses == {"error", "no_id"} 
Associate ==
    /\ pc = "associate"
    /\ sent' = Sent("Associate")
    /\ \E failure \in Opt(AssociateResponses), id \in DbIds :
          IF failure = None
          THEN database_id' = Some(id) /\ pc' = "create_group" /\ UNCHANGED << result, exit >>
          ELSE /\ Finish(Err(IF Unwrap(failure) = "error" THEN "Failed to send Associate"
                                ELSE "Association failed"))
               /\ UNCHANGED database_id
    /\ UNCHANGED << envVars, peer, sl_response, prompted, store, verified, hostKey, w,
                    config_file, req, stdinRead, gl, sl_req, out, wrote >>

\* configure, main.rs 198-234
CreateNewGroup ==
    /\ pc = "create_group"
    /\ sent' = Sent("CreateNewGroup")
    /\ \E failed \in BOOLEAN, promptOk \in BOOLEAN, writeOk \in BOOLEAN :
          IF failed
          THEN /\ Finish(Err("Failed to send CreateNewGroup"))
               /\ UNCHANGED << store, verified, config_file, wrote, prompted >>
          ELSE FileOnly(configure_config(Unwrap(database_id), promptOk, writeOk))
    /\ UNCHANGED << envVars, peer, sl_response, hostKey, w, req, stdinRead, gl, sl_req,
                    database_id, out >>

(***************************************************************************)
(* Spec: one invocation of any subcommand, on a configuration file in any  *)
(* of its states, against a KeePassXC that may answer anything.            *)
(***************************************************************************)
GitCaller == [path |-> "/usr/bin/git", uid |-> None, gid |-> None, enc |-> FALSE]
EvilCaller == [path |-> "/usr/bin/evil", uid |-> None, gid |-> None, enc |-> FALSE]

\* the first n databases, all stored encrypted or all in the clear
Databases(n, enc) == [k \in 1..n |-> [id |-> k, group |-> "Git", enc |-> enc]]

SpecConfigs ==
    {[databases |-> Databases(n, enc), callers |-> SetEnc(cs, enc),
      encryptions |-> IF enc THEN << "token" >> ELSE << >>] :
        n \in 0..MaxDbs, enc \in BOOLEAN, cs \in {<< >>, << GitCaller >>, << EvilCaller >>}}

\* a file that is there and that Config::read_from fails on holds what was written
\* to it: nothing that counts, or databases and callers
UnreadableConfigs ==
    {ConfigNew,
     [databases |-> Databases(1, FALSE), callers |-> << GitCaller >>, encryptions |-> << >>]}

SpecStores ==
    {[state |-> "absent", config |-> ConfigNew]}
    \cup {[state |-> "unreadable", config |-> c] : c \in UnreadableConfigs}
    \cup {[state |-> "readable", config |-> c] : c \in SpecConfigs}

SpecHosts ==
    {h \in Hosts : h.lookup = "ok" /\ h.ppath = "/usr/bin/git" /\ h.uid = 1000
                   /\ h.gid = 1000 /\ h.puid = 1000 /\ h.pgid = 1000}

SpecBuilds == {b \in Builds : b.platform = "unix"}

SpecInvocations ==
    {[NoCommand EXCEPT !.cmd = c] : c \in {"none", "version", "decrypt", "erase"}}
    \cup {[NoCommand EXCEPT !.cmd = "get", !.unlock_ok = FALSE]}
    \cup {[NoCommand EXCEPT !.cmd = c, !.encryption = e] :
             c \in {"configure", "encrypt"}, e \in Opt({"", "token", "token2"})}
    \cup {[NoCommand EXCEPT !.cmd = "caller", !.sub = s] : s \in {"clear", "none", "add"}}
    \cup {[NoCommand EXCEPT !.cmd = "caller", !.sub = "add", !.path = Some("/usr/bin/git"),
                            !.uid = u, !.encryption = e] :
             u \in Opt(IdArgs), e \in Opt({"token", "token2"})}
    \cup {[NoCommand EXCEPT !.cmd = c, !.unlock = u] :
             c \in {"get", "store"}, u \in Opt({o \in UnlockOptions : o.max_retries = 1})}

\* what git writes on stdin
GitInput(parses, url, protocol, hostname, username, password) ==
    [parses |-> parses, url |-> url, protocol |-> protocol, host |-> hostname,
     path |-> None, username |-> username, password |-> password]
ExampleUrl == Some("https://example.com")
SpecInputs ==
    {GitInput(FALSE, None, None, None, None, None),
     GitInput(TRUE, None, Some("https"), None, None, None),
     GitInput(TRUE, None, Some("https"), Some("example.com"), None, None),
     GitInput(TRUE, ExampleUrl, None, None, Some("alice"), None),
     GitInput(TRUE, ExampleUrl, None, None, Some("alice"), Some("p1")),
     GitInput(TRUE, ExampleUrl, None, None, Some("alice"), Some("new"))}

\* keepassxc::LoginEntry; KeePassXC gives each entry its uuid, here its place
LoginEntry(login, password, string_fields, expired) ==
    [login |-> login, password |-> password, uuid |-> 0,
     string_fields |-> string_fields, expired |-> expired]
Numbered(entries) == [k \in 1..Len(entries) |-> [entries[k] EXCEPT !.uuid = k]]

SpecEntries ==
    {LoginEntry("alice", "p1", None, None),
     LoginEntry("alice", "old", None, Some(FALSE)),
     LoginEntry("bob", "p1", Some(<< KphGit :> "false" >>), None),
     LoginEntry("alice", "p1", None, Some(TRUE))}
SpecEntryLists == {Numbered(s) : s \in SeqsUpTo(SpecEntries, 2)}

Init ==
    /\ build \in SpecBuilds
    /\ host \in SpecHosts
    /\ store \in SpecStores
    /\ inv \in SpecInvocations
    /\ pc = "start"
    /\ Fresh
    /\ Alone

Next ==
    \/ RejectArguments
    \/ Encrypt
    \/ Decrypt
    \/ CallerCommand
    \/ Erase(SpecInputs)
    \/ BeginCredential(SpecInputs)
    \/ StartSession
    \/ Associate
    \/ CreateNewGroup
    \/ TestAssociate
    \/ Sleep
    \/ PollDatabaseHash
    \/ GetLogins(SpecEntryLists)
    \/ SetLogin

Spec == Init /\ [][Next]_vars

(***************************************************************************)
(* SpecUnlock: get and store with every --unlock budget within the bounds, *)
(* on a file of one database or more that lets every caller in.            *)
(***************************************************************************)
UnlockInputs == {GitInput(TRUE, ExampleUrl, None, None, Some("alice"), Some("new"))}
UnlockEntryLists == {Numbered(s) : s \in SeqsUpTo({LoginEntry("alice", "p1", None, None)}, 1)}

InitUnlock ==
    /\ build = [strict |-> FALSE, platform |-> "unix"]
    /\ host \in {h \in SpecHosts : ~h.keyOk}
    /\ \E n \in 1..MaxDbs :
          store = [state |-> "readable",
                   config |-> [databases |-> Databases(n, FALSE), callers |-> << >>,
                               encryptions |-> << >>]]
    /\ \E c \in {"get", "store"}, u \in Opt(UnlockOptions) :
          /\ c = "store" => u \in Opt({o \in UnlockOptions : o.max_retries = 1})
          /\ inv = [NoCommand EXCEPT !.cmd = c, !.unlock = u]
    /\ pc = "start"
    /\ Fresh
    /\ Alone

NextUnlock ==
    \/ BeginCredential(UnlockInputs)
    \/ StartSession
    \/ TestAssociate
    \/ Sleep
    \/ PollDatabaseHash
    \/ GetLogins(UnlockEntryLists)
    \/ SetLogin

SpecUnlock == InitUnlock /\ [][NextUnlock]_vars

(***************************************************************************)
(* SpecResolve: get on a file of one database that lets every caller in,   *)
(* with every username hint and every list of entries within the bounds.   *)
(***************************************************************************)
ResolveInputs ==
    {GitInput(TRUE, ExampleUrl, None, None, u, None) : u \in Opt({"bob"})}
ResolveFields ==
    {None, Some(<< KphGit :> "true" >>),
     Some(<< "KPH: other" :> "false", KphGit :> "false" >>)}
ResolveShapes ==
    {LoginEntry(l, "", f, e) : l \in {"alice", "bob"}, f \in ResolveFields, e \in Opt(BOOLEAN)}
\* every entry has a password of its own
PositionPasswords == << "p1", "p2", "p3", "p4", "p5" >>
Positioned(entries) ==
    [k \in 1..Len(entries) |-> [entries[k] EXCEPT !.uuid = k, !.password = PositionPasswords[k]]]
ResolveEntryLists == {Positioned(s) : s \in SeqsUpTo(ResolveShapes, MaxEntries)}

InitResolve ==
    /\ build = [strict |-> FALSE, platform |-> "unix"]
    /\ host \in {h \in SpecHosts : ~h.keyOk}
    /\ store = [state |-> "readable",
                config |-> [databases |-> Databases(1, FALSE), callers |-> << >>,
                            encryptions |-> << >>]]
    /\ inv = [NoCommand EXCEPT !.cmd = "get"]
    /\ pc = "start"
    /\ Fresh
    /\ Alone

NextResolve ==
    \/ BeginCredential(ResolveInputs)
    \/ StartSession
    \/ TestAssociate
    \/ GetLogins(ResolveEntryLists)

SpecResolve == InitResolve /\ [][NextResolve]_vars

(***************************************************************************)
(* SpecStore: store, and the same store once more after it has succeeded,  *)
(* against a KeePassXC that holds entries for the url: it answers GetLogins *)
(* with the entries it holds, or fails, and a SetLogin it accepts changes   *)
(* them.                                                                   *)
(***************************************************************************)
StoreInputs ==
    {GitInput(TRUE, ExampleUrl, None, None, Some("alice"), Some(p)) : p \in {"p1", "new"}}
\* entries of alice, in the clear, opted out or expired, and one of bob
StoreShapes ==
    {LoginEntry("alice", p, None, e) : p \in {"p1", "old"}, e \in {None, Some(TRUE)}}
    \cup {LoginEntry("alice", p, Some(<< KphGit :> "false" >>), None) : p \in {"p1", "old"}}
    \cup {LoginEntry("bob", "p1", None, None)}
HeldEntryLists == {Numbered(s) : s \in SeqsUpTo(StoreShapes, MaxEntries - 1)}

InitStore ==
    /\ build = [strict |-> FALSE, platform |-> "unix"]
    /\ host \in {h \in SpecHosts : ~h.keyOk}
    /\ \E n \in 1..MaxDbs :
          store = [state |-> "readable",
                   config |-> [databases |-> Databases(n, FALSE), callers |-> << >>,
                               encryptions |-> << >>]]
    /\ inv = [NoCommand EXCEPT !.cmd = "store"]
    /\ pc = "start"
    /\ Fresh
    /\ peer \in {Some(held) : held \in HeldEntryLists}
    /\ first = None
    /\ race = None

\* git sends the request of the first invocation once more
SameRequest ==
    IF first = None THEN StoreInputs
    ELSE {input \in StoreInputs : read_git_request(input).val = Unwrap(first).req}

\* the first store has returned Ok: a second process is started with the same
\* command line
StoreAgain ==
    /\ pc = "exited" /\ inv.cmd = "store" /\ IsOk(result)
    /\ first = None
    /\ first' = Some([req |-> req, gl |-> gl, sl_req |-> sl_req, sent |-> sent])
    /\ pc' = "start"
    /\ verified' = Running
    /\ sent' = NothingSent
    /\ hostKey' = FALSE
    /\ w' = WaiterIdle
    /\ config_file' = None
    /\ req' = None
    /\ stdinRead' = FALSE
    /\ gl' = None
    /\ sl_req' = None
    /\ result' = Running
    /\ exit' = None
    /\ sl_response' = None
    /\ UNCHANGED << build, host, prompted, inv, store, peer, race, dropped, database_id, out,
                    wrote >>

NextStore ==
    \/ BeginCredential(SameRequest)
    \/ StartSession
    \/ TestAssociate
    \/ GetLogins({Unwrap(peer)})
    \/ SetLogin
    \/ StoreAgain

SpecStore == InitStore /\ [][NextStore]_vars

(***************************************************************************)
(* SpecErase: erase, over every store file, with well-formed, malformed    *)
(* and empty requests, with and without an --unlock option.                *)
(***************************************************************************)
EraseInputs == SpecInputs \cup {GitInput(TRUE, None, None, None, None, None)}

InitErase ==
    /\ build \in SpecBuilds
    /\ host \in SpecHosts
    /\ store \in SpecStores
    /\ \E u \in Opt({o \in UnlockOptions : o.max_retries = 1}), ok \in BOOLEAN :
          /\ ~ok => u = None
          /\ inv = [NoCommand EXCEPT !.cmd = "erase", !.unlock = u, !.unlock_ok = ok]
    /\ pc = "start"
    /\ Fresh
    /\ Alone

NextErase ==
    \/ RejectArguments
    \/ Erase(EraseInputs)

SpecErase == InitErase /\ [][NextErase]_vars

(***************************************************************************)
(* SpecRace: two invocations with the same command line at work on the     *)
(* same file.  Each reads the file (Config::read_from), computes the       *)
(* Config to save in its own memory, and writes it (Config::write_to);     *)
(* nothing in main.rs takes a lock, so the reads and writes of the two     *)
(* interleave freely.  race holds the file as it was before both and, per  *)
(* process, where it stands and the outcome it has computed.               *)
(***************************************************************************)
Procs == 1..2

RaceInvocations ==
    {[NoCommand EXCEPT !.cmd = "caller", !.sub = "add", !.path = Some("/usr/bin/git"),
                       !.encryption = e] : e \in Opt({"token"})}
    \cup {[NoCommand EXCEPT !.cmd = "caller", !.sub = "clear"]}
    \cup {[NoCommand EXCEPT !.cmd = c, !.encryption = e] :
             c \in {"configure", "encrypt"}, e \in Opt({"token"})}
    \cup {[NoCommand EXCEPT !.cmd = "decrypt"]}

InitRace ==
    /\ build = [strict |-> FALSE, platform |-> "unix"]
    /\ host \in SpecHosts
    /\ store \in {s \in SpecStores : s.state # "unreadable"}
    /\ inv \in RaceInvocations
    /\ pc = "start"
    /\ Fresh
    /\ peer = None
    /\ first = None
    /\ race = Some([before |-> store, proc |-> [p \in Procs |-> [at |-> "start", o |-> None]]])

\* what the subcommand of process p makes of the file as it is now; configure has
\* been given the database id p by KeePassXC
Mutation(p, promptOk, writeOk) ==
    IF inv.cmd = "caller" THEN caller(writeOk)
    ELSE IF inv.cmd = "encrypt" THEN encrypt(promptOk, writeOk)
    ELSE IF inv.cmd = "decrypt" THEN decrypt(writeOk)
    ELSE configure_config(p, promptOk, writeOk)

\* Config::read_from and everything up to Config::write_to, in the memory of p
RaceRead(p) ==
    /\ race # None
    /\ Unwrap(race).proc[p].at = "start"
    /\ \E promptOk \in BOOLEAN, writeOk \in BOOLEAN :
          race' = Some([Unwrap(race) EXCEPT
                          !.proc[p] = [at |-> "read", o |-> Some(Mutation(p, promptOk, writeOk))]])
    /\ UNCHANGED << build, host, prompted, inv, first, dropped, peer, sl_response, store,
                    verified, sent, hostKey, w, config_file, req, stdinRead, gl, sl_req,
                    database_id, out, wrote, pc, result, exit >>

\* Config::write_to of p, where its subcommand has come that far, and its return
RaceWrite(p) ==
    /\ race # None
    /\ Unwrap(race).proc[p].at = "read"
    /\ store' = StoreAfter(Unwrap(Unwrap(race).proc[p].o))
    /\ race' = Some([Unwrap(race) EXCEPT !.proc[p].at = "done"])
    /\ UNCHANGED << build, host, prompted, inv, first, dropped, peer, sl_response, verified, sent,
                    hostKey, w, config_file, req, stdinRead, gl, sl_req, database_id, out,
                    wrote, pc, result, exit >>

NextRace ==
    \/ \E p \in Procs : RaceRead(p)
    \/ \E p \in Procs : RaceWrite(p)

SpecRace == InitRace /\ [][NextRace]_vars

(***************************************************************************)
(* SpecSession: every subcommand, against a peer that may answer anything  *)
(* to every request, on plaintext stores without callers; waiting for      *)
(* unlock is followed for a single database.                               *)
(***************************************************************************)
SessionInvocations ==
    {[NoCommand EXCEPT !.cmd = c] :
        c \in {"none", "configure", "encrypt", "decrypt", "erase", "get", "store"}}
    \cup {[NoCommand EXCEPT !.cmd = "caller", !.sub = s, !.path = Some("/usr/bin/git")] :
             s \in {"add", "clear"}}
    \cup {[NoCommand EXCEPT !.cmd = c, !.unlock = Some([interval |-> 100, max_retries |-> 1])] :
             c \in {"get", "store"}}

InitSession ==
    /\ build = [strict |-> FALSE, platform |-> "unix"]
    /\ host \in SpecHosts
    /\ store \in {[state |-> "absent", config |-> ConfigNew]}
                  \cup {[state |-> "readable",
                         config |-> [databases |-> Databases(n, FALSE), callers |-> << >>,
                                     encryptions |-> << >>]] : n \in 0..MaxDbs}
    /\ inv \in SessionInvocations
    /\ inv.unlock # None => Len(store.config.databases) <= 1
    /\ pc = "start"
    /\ Fresh
    /\ Alone

SpecSession == InitSession /\ [][Next]_vars

(***************************************************************************)
(* The properties.                                                         *)
(***************************************************************************)
\* some request has been sent to KeePassXC
ContactedPeer == sent # NothingSent

\* C1: in every subcommand, when caller verification fails with CallerDenied, no
\* message of any type has been sent to the password manager before the denial.
\* configure sends ChangePublicKeys, Associate and CreateNewGroup before it reads
\* the file and verifies the caller.
C1_DenialBeforeContact == verified = Err(CallerDenied) => ~ContactedPeer

\* C2: a subcommand performs its effect (writing the store, contacting the peer,
\* emitting credentials, or returning success) only after verify_caller has
\* returned success for this invocation.  erase never calls verify_caller,
\* configure and caller skip it when the file cannot be read, and configure
\* contacts the peer before it.
C2_GatedByVerification ==
    (wrote \/ ContactedPeer \/ out # None \/ IsOk(result)) => IsOk(verified)

\* the allow-list and the databases verify_caller is given under SpecVerify
VerifiedConfig == store.config
HasPathOfParent(callers) == \E k \in 1..Len(callers) : callers[k].path = host.ppath
BootstrapCase ==
    /\ VerifiedConfig.callers = << >>
    /\ (~build.strict \/ VerifiedConfig.databases = << >>)

AcceptsParent(c) ==
    /\ c.path = host.ppath
    /\ (IsSome(c.uid) => Unwrap(c.uid) = host.puid)
    /\ (IsSome(c.gid) => Unwrap(c.gid) = host.pgid)

\* C4: when verification is not skipped, an entry that specifies a uid and/or gid
\* accepts only if they equal the uid/gid of the parent process: on the unix build
\* verify_caller succeeds only if some entry accepts the parent.  The code compares
\* with the uid and gid of the helper's own process.
C4_UidGidOfParent ==
    (pc = "verified" /\ build.platform = "unix" /\ verified = Ok(Some(host.ppath)))
       => \E k \in 1..Len(VerifiedConfig.callers) : AcceptsParent(VerifiedConfig.callers[k])

\* C5: whenever real_main returns an error the process logs it and terminates
\* with a non-zero exit status; exit status 0 occurs only on success.  main logs
\* the error and returns, which ends the process with status 0.
C5_FailureExitsNonZero ==
    /\ IsErr(result) => (exit # None /\ Unwrap(exit).logged /\ Unwrap(exit).code # 0)
    /\ (exit # None /\ Unwrap(exit).code = 0) => IsOk(result)

\* --unlock was given with a bounded budget
Bounded == inv.unlock # None /\ Unwrap(inv.unlock).max_retries > 0
Budget == Unwrap(inv.unlock).max_retries
Locked == Some([tag |-> "Err", success |-> None, kind |-> "locked"])
TasoOkTrue == Some([tag |-> "Ok", success |-> Some(TRUE), kind |-> ""])

\* C6: with a bounded budget n > 0, for a database whose TestAssociate fails as
\* locked and whose polls never succeed, exactly n GetDatabaseHash polls are
\* sent, each preceded by one sleep, then the database is recorded failed, after
\* a single TestAssociate; once a poll succeeds the next request is a
\* TestAssociate; and every database starts with the budget n.
C6_BoundedPolls ==
    Bounded =>
       /\ (w.i > 0 /\ w.okPolls = 0) => (w.polls <= Budget /\ w.sleeps <= Budget)
       /\ w.i > 0 => (w.sleeps = IF pc = "poll" THEN w.polls + 1 ELSE w.polls)
       /\ (w.i > 0 /\ w.tasos = 0) => w.remain_retries = Budget
       /\ w.event = "poll_ok" => pc = "taso"
       /\ \A d \in {x \in {w.done} : x # None} :
             (Unwrap(d).first = Locked /\ Unwrap(d).okPolls = 0) =>
                /\ Unwrap(d).polls = Budget
                /\ Unwrap(d).sleeps = Budget
                /\ Unwrap(d).tasos = 1
                /\ ~Unwrap(d).accepted

\* C6 witness: the second database has used its whole budget of two polls and is
\* recorded failed, after the first one, locked until its end, was recorded failed
C6_Witness ==
    /\ Bounded /\ Budget = 2
    /\ Len(w.log) = 2 /\ w.log[1] = Locked /\ w.usable = << >>
    /\ w.done # None
    /\ Unwrap(w.done).id = 2 /\ Unwrap(w.done).first = Locked
    /\ Unwrap(w.done).okPolls = 0 /\ Unwrap(w.done).polls = 2

\* C7: with a bounded budget n > 0 every poll decrements the counter, so for every
\* peer at most n polls are sent for one database.  A poll that succeeds leaves the
\* counter as it is: a peer that answers GetDatabaseHash while TestAssociate keeps
\* failing as locked is polled without end.
C7_AtMostBudgetPolls == (Bounded /\ w.i > 0) => w.polls <= Budget

\* the elements of s at the places in idx, in order
RECURSIVE AtPlaces(_, _, _)
AtPlaces(s, idx, k) ==
    IF k > Len(s) THEN << >>
    ELSE IF k \in idx THEN << s[k] >> \o AtPlaces(s, idx, k + 1)
    ELSE AtPlaces(s, idx, k + 1)

\* associated_databases has gone through every configured database
ConfiguredDatabases == Unwrap(config_file).databases
AllDatabasesTried == config_file # None /\ w.i > 0 /\ Len(w.log) = Len(ConfiguredDatabases)

MarkedExpired(e) == e.expired = Some(TRUE)
OptedOut(e) ==
    /\ e.string_fields # None
    /\ \E k \in 1..Len(e.string_fields[1]) :
          /\ "KPH: git" \in DOMAIN e.string_fields[1][k]
          /\ e.string_fields[1][k]["KPH: git"] = "false"
Offered(e) == ~MarkedExpired(e) /\ ~OptedOut(e)
Credentials(e) == Some([username |-> e.login, password |-> e.password])
\* the entries of the response, and those left after the two filters
PeerEntries == Unwrap(gl).entries
Remaining == SelectSeq(PeerEntries, Offered)
Hint == Unwrap(req).username
MatchesHint(e) == Hint # None /\ e.login = Hint[1]
\* get has had its GetLogins response
GetResolved == inv.cmd = "get" /\ gl # None

\* C9: after dropping expired and opted-out entries, if more than one entry remains
\* and the request carries a username hint, the candidates are narrowed to the
\* entries whose login equals the hint only when that narrowing is non-empty; the
\* entry returned is the first candidate in peer order; ambiguity never produces an
\* error; an empty candidate set produces NoMatchingLogin.
C9_CandidateSelection ==
    GetResolved =>
       LET narrowed == SelectSeq(Remaining, MatchesHint)
           expected == IF Len(Remaining) > 1 /\ Hint # None /\ narrowed # << >>
                       THEN narrowed ELSE Remaining
       IN  /\ Unwrap(gl).candidates = expected
           /\ Remaining = << >> => (result = Err(NoMatchingLogin) /\ out = None)
           /\ Remaining # << >> =>
                 /\ result \in {Ok(None), Err("Failed to write to stdout")}
                 /\ IsOk(result) => out = Credentials(Head(expected))
           /\ (Len(Remaining) > 1 /\ Len(narrowed) = 1 /\ IsOk(result))
                 => out = Credentials(narrowed[1])
           /\ (narrowed = << >> /\ Remaining # << >> /\ IsOk(result))
                 => out = Credentials(Remaining[1])

\* C9 witness: three entries remain, the hint matches the last of them alone, and
\* that one is returned
C9_Witness ==
    /\ GetResolved /\ IsOk(result)
    /\ Len(Remaining) = 3 /\ Hint = Some("bob")
    /\ Remaining[1].login = "alice" /\ Remaining[2].login = "alice"
    /\ out = Credentials(Remaining[3])

\* C10: get never returns an entry marked expired or carrying the opt-out marker:
\* the kept entries are exactly the non-expired, non-opted-out ones in their
\* original order, the exclusion count is the number of non-expired entries
\* carrying the marker, and kept + excluded = number of non-expired entries.
C10_FiltersExpiredAndOptedOut ==
    GetResolved =>
       LET places == 1..Len(PeerEntries)
       IN  /\ Unwrap(gl).kept = Remaining
           /\ Unwrap(gl).kph_false =
                 Cardinality({k \in places : ~MarkedExpired(PeerEntries[k])
                                             /\ OptedOut(PeerEntries[k])})
           /\ Len(Unwrap(gl).kept) + Unwrap(gl).kph_false =
                 Cardinality({k \in places : ~MarkedExpired(PeerEntries[k])})
           /\ out # None =>
                 \E k \in places : Offered(PeerEntries[k]) /\ out = Credentials(PeerEntries[k])

\* C10 witness: of an opted-out entry, an expired one and a third, get returns the
\* third and counts one exclusion
C10_Witness ==
    /\ GetResolved /\ Len(PeerEntries) = 3
    /\ OptedOut(PeerEntries[1]) /\ ~MarkedExpired(PeerEntries[1])
    /\ MarkedExpired(PeerEntries[2]) /\ ~OptedOut(PeerEntries[2])
    /\ Offered(PeerEntries[3])
    /\ Unwrap(gl).kph_false = 1
    /\ out = Credentials(PeerEntries[3])

\* store has had its GetLogins response and found these entries for the username
StoreResolved == inv.cmd = "store" /\ gl # None
Existing == Unwrap(gl).candidates
\* store is past the point where it sends SetLogin or returns
StoreDecided == pc \in {"set_login", "exited"}

\* C13: when store finds no existing entry, the SetLogin it sends carries no uuid
\* and targets the first usable database, the first configured one that passed
\* TestAssociate in this invocation, with that database's group.
C13_CreatesInFirstUsable ==
    (StoreResolved /\ Existing = << >> /\ StoreDecided) =>
       /\ sl_req # None
       /\ Unwrap(sl_req).uuid = None
       /\ Unwrap(sl_req).database_id = Head(w.usable).id
       /\ Unwrap(sl_req).group = Head(w.usable).group

\* get_logins_for failed in store: no database passed TestAssociate, or the
\* GetLogins exchange failed
StoreWithoutDatabase == inv.cmd = "store" /\ AllDatabasesTried /\ w.usable = << >>
StoreGetLoginsFailed == inv.cmd = "store" /\ sent["GetLogins"] > 0 /\ gl = None

\* C14: in store, if no configured database passes TestAssociate or the GetLogins
\* exchange fails, store fails and sends no SetLogin request.
C14_StoreFailsWithoutLogins ==
    (StoreWithoutDatabase \/ StoreGetLoginsFailed) =>
       /\ sent["SetLogin"] = 0
       /\ pc # "set_login"
       /\ pc = "exited" => IsErr(result)

\* C15: when store must update an existing entry and more than one database is
\* configured, it ends with an error returned through the normal error path (logged
\* by main), and no SetLogin is sent.
C15_MultiDatabaseUpdateIsAnError ==
    (/\ StoreResolved /\ Existing # << >>
     /\ Head(Existing).password # Unwrap(Unwrap(req).password)
     /\ Len(ConfiguredDatabases) > 1
     /\ StoreDecided) =>
       /\ sent["SetLogin"] = 0
       /\ pc = "exited"
       /\ IsErr(result)
       /\ Unwrap(exit).logged

\* the SetLogin response is one the claim counts as a success
SetLoginSucceeded(resp) ==
    /\ resp.tag = "Ok"
    /\ resp.success = Some(TRUE)
    /\ resp.error \in {None, Some(""), Some("success")}

\* C16: store reports success after sending SetLogin if and only if the response's
\* success flag is present and true and its error field is absent, empty or exactly
\* "success"; every other combination makes store fail.
C16_SuccessIffFlagAndError ==
    sl_response # None =>
       /\ pc = "exited" /\ sent["SetLogin"] = 1
       /\ IsOk(result) <=> SetLoginSucceeded(Unwrap(sl_response))
       /\ ~SetLoginSucceeded(Unwrap(sl_response)) => IsErr(result)

\* C16 witness: the flag is true, the error text is another one, and store failed
C16_Witness ==
    /\ sl_response = Some([tag |-> "Ok", success |-> Some(TRUE), error |-> Some("Access denied")])
    /\ result = Err("Failed to store login")
    /\ inv.cmd = "store"

\* what store was asked to write
Incoming == [login |-> Unwrap(Unwrap(req).username), password |-> Unwrap(Unwrap(req).password)]
HasIncoming(e) == e.login = Incoming.login /\ e.password = Incoming.password
\* the entries of the response store takes for existing ones: those offered that
\* have the login of the request
ForIncomingLogin(e) == e.login = Incoming.login
OfferedExisting == SelectSeq(SelectSeq(PeerEntries, Offered), ForIncomingLogin)

\* C11: store is idempotent: of two store invocations in succession with the same
\* request, the first having succeeded, the second (its GetLogins answered with the
\* entries KeePassXC holds) sends no SetLogin and succeeds; and whenever the first
\* existing entry for the username has the incoming login and password, store
\* succeeds without any write.
C11_StoreTwiceWritesOnce ==
    /\ (first # None /\ StoreResolved) =>
          (sent["SetLogin"] = 0 /\ pc = "exited" /\ IsOk(result))
    /\ (StoreResolved /\ OfferedExisting # << >> /\ HasIncoming(Head(OfferedExisting))) =>
          /\ sent["SetLogin"] = 0 /\ pc = "exited" /\ IsOk(result)
          /\ peer = Some(PeerEntries)

\* an entry with the login of the request and another password
Outdated(e) == e.login = Incoming.login /\ e.password # Incoming.password

\* C12: store for a username for which the peer holds an entry with a different
\* password, whatever its other attributes, sends exactly one SetLogin, with the
\* uuid of that entry, and the peer holds no further entry afterwards.
C12_UpdatesAnyExistingEntry ==
    (StoreResolved /\ pc = "exited" /\ SelectSeq(PeerEntries, Outdated) # << >>) =>
       /\ sent["SetLogin"] = 1
       /\ \E k \in 1..Len(PeerEntries) :
             Outdated(PeerEntries[k]) /\ Unwrap(sl_req).uuid = Some(PeerEntries[k].uuid)
       /\ Len(Unwrap(peer)) = Len(PeerEntries)

\* PeerEntries with the password of the entry uuid replaced
WithPassword(uuid, password) ==
    [k \in 1..Len(PeerEntries) |->
        IF PeerEntries[k].uuid = uuid THEN [PeerEntries[k] EXCEPT !.password = password]
        ELSE PeerEntries[k]]

\* C12 as amended: when GetLogins returns an entry for the username that is neither
\* expired nor opted out and the first such entry has a different password, then
\* with exactly one database configured store sends exactly one SetLogin, with the
\* uuid of that entry, after which the peer holds as many entries as before and,
\* where it accepts the request, that entry with the new password; with more than
\* one database configured store sends no SetLogin and the peer's entries stay as
\* they are.
C12_UpdatesFirstOfferedEntry ==
    (/\ StoreResolved /\ StoreDecided
     /\ OfferedExisting # << >> /\ Outdated(Head(OfferedExisting))) =>
       IF Len(ConfiguredDatabases) = 1
       THEN /\ sl_req # None
            /\ Unwrap(sl_req).uuid = Some(Head(OfferedExisting).uuid)
            /\ Unwrap(sl_req).login = Incoming.login
            /\ Unwrap(sl_req).password = Incoming.password
            /\ sent["SetLogin"] = IF pc = "exited" THEN 1 ELSE 0
            /\ Len(Unwrap(peer)) = Len(PeerEntries)
            /\ IsOk(result) =>
                  peer = Some(WithPassword(Head(OfferedExisting).uuid, Incoming.password))
       ELSE /\ sl_req = None /\ sent["SetLogin"] = 0
            /\ peer = Some(PeerEntries)

\* C12 witness: the peer held an opted-out entry of alice and then a plain one with
\* an old password; the second one was updated and there are still two
C12_Witness ==
    /\ StoreResolved /\ IsOk(result) /\ Len(PeerEntries) = 2
    /\ OptedOut(PeerEntries[1]) /\ PeerEntries[1].login = "alice"
    /\ Offered(PeerEntries[2]) /\ PeerEntries[2].login = "alice"
    /\ PeerEntries[2].password = "old" /\ Incoming.password = "new"
    /\ Unwrap(sl_req).uuid = Some(2)
    /\ Len(Unwrap(peer)) = 2 /\ Unwrap(peer)[2].password = "new"

\* erase_login has been entered and has returned
Erased == inv.cmd = "erase" /\ IsOk(real_main_args) /\ pc = "exited"

\* C17: erase, once entered, returns success whatever the request on stdin (well
\* formed, malformed or empty), has read stdin to its end, has sent nothing to
\* KeePassXC, and has left the store file as it was.
C17_EraseAlwaysSucceeds ==
    /\ [](Erased =>
            /\ IsOk(result) /\ Unwrap(exit) = [code |-> 0, logged |-> FALSE]
            /\ stdinRead /\ dropped # None
            /\ sent = NothingSent /\ ~hostKey
            /\ ~wrote /\ out = None)
    /\ [][inv.cmd = "erase" => store' = store]_vars

\* C17 witness: erase was given a request that does not parse and returned success
C17_Witness ==
    /\ Erased /\ IsOk(result) /\ stdinRead
    /\ dropped = Some(Err("Failed to parse the git request"))
    /\ store.state = "readable" /\ store.config.databases # << >>

\* a collection of the store stored entirely encrypted or entirely in the clear
Uniform(collection) ==
    \A i \in 1..Len(collection), j \in 1..Len(collection) : collection[i].enc = collection[j].enc

\* C18: whatever configure [--encrypt], caller add [--encrypt], caller clear,
\* encrypt and decrypt have written, the databases of the store file are all
\* encrypted or all in the clear, and so are its callers.
C18_NoPartlyEncryptedCollection ==
    Uniform(store.config.databases) /\ Uniform(store.config.callers)

\* both invocations have returned, each having written the file
BothWrote ==
    /\ race # None
    /\ \A p \in Procs : /\ Unwrap(race).proc[p].at = "done"
                        /\ Unwrap(Unwrap(race).proc[p].o).wrote
Before == Unwrap(race).before.config

\* C19: two mutating invocations at work on the same file at once leave it as some
\* serial order of the two would; in particular, when both have succeeded, the
\* file holds what each of them added: two more callers after two caller add, two
\* more databases after two configure.
C19_NoLostUpdate ==
    BothWrote =>
       /\ (inv.cmd = "caller" /\ inv.sub = "add") =>
             Len(store.config.callers) = Len(Before.callers) + 2
       /\ inv.cmd = "configure" =>
             /\ Len(store.config.databases) = Len(Before.databases) + 2
             /\ \A p \in Procs : \E k \in 1..Len(store.config.databases) :
                   store.config.databases[k].id = p

\* the entries of a are kept, in their places, in b
KeptIn(a, b) == Len(a) <= Len(b) /\ \A k \in 1..Len(a) : b[k] = a[k]
\* b is a with exactly one entry more
OneMore(a, b) == Len(b) = Len(a) + 1 /\ KeptIn(a, b)
\* this step is the return of a successful invocation
Succeeds == pc # "exited" /\ pc' = "exited" /\ IsOk(result')

\* C20: whatever the state of the store file (absent, readable, there but
\* unreadable): get, store and erase never write it; a successful configure adds
\* exactly one database and keeps every database, caller and profile there was; a
\* successful caller add adds exactly one caller and keeps every database,
\* caller and profile there was; only caller clear removes callers, only decrypt
\* removes profiles; a failed invocation leaves the file as it was.
C20_EntriesChangeOnlyByTheirSubcommand ==
    [][/\ inv.cmd \in {"get", "store", "erase"} => store' = store
       /\ (Succeeds /\ inv.cmd = "configure") =>
             /\ OneMore(store.config.databases, store'.config.databases)
             /\ store'.config.callers = store.config.callers
             /\ KeptIn(store.config.encryptions, store'.config.encryptions)
       /\ (Succeeds /\ inv.cmd = "caller" /\ inv.sub = "add") =>
             /\ OneMore(store.config.callers, store'.config.callers)
             /\ store'.config.databases = store.config.databases
             /\ KeptIn(store.config.encryptions, store'.config.encryptions)
       /\ Len(store'.config.callers) < Len(store.config.callers) =>
             inv.cmd = "caller" /\ inv.sub = "clear"
       /\ Len(store'.config.encryptions) < Len(store.config.encryptions) =>
             inv.cmd = "decrypt"
       /\ (pc' = "exited" /\ ~IsOk(result')) => store' = store
      ]_vars

\* the subcommand was asked to add the profile named on its command line
AddsProfile ==
    /\ inv.cmd \in {"configure", "encrypt"} \/ (inv.cmd = "caller" /\ inv.sub = "add")
    /\ inv.encryption # None /\ Unwrap(inv.encryption) # ""

\* C21: configure --encrypt, encrypt PROFILE and caller add --encrypt, on a store
\* that holds a profile already: a profile is added only after the reuse-or-replace
\* confirmation step, and when the key of the existing profiles cannot be
\* recovered the subcommand fails, adds no profile and does not write the store.
C21_ConfirmationBeforeSecondProfile ==
    [][/\ (/\ count_encryptions(store.config) > 0
           /\ count_encryptions(store'.config) > count_encryptions(store.config)) =>
             prompted'
       /\ (/\ AddsProfile /\ pc' = "exited" /\ pc # "exited"
           /\ count_encryptions(store.config) > 0 /\ ~host.keyOk) =>
             ~IsOk(result') /\ store' = store /\ ~wrote'
      ]_vars

\* associated_databases is at work on a database it has sent a TestAssociate for
\* and has not finished
GoesOn == pc \in {"taso", "sleep", "poll"} /\ w.i > 0 /\ w.tasos > 0

\* C22: the loop over one database goes on after a TestAssociate only when unlock
\* options were given and that attempt failed as locked; after any other attempt
\* nothing more is sent for the database, and it is recorded failed unless the
\* response was Ok with success true.  Without unlock options one TestAssociate
\* is sent per configured database, with the unlock trigger off, and nothing else.
C22_NoRetryUnlessLockedAndWaiting ==
    /\ GoesOn => (inv.unlock # None /\ w.last = Locked)
    /\ \A d \in {x \in {w.done} : x # None} :
          /\ Unwrap(d).last # TasoOkTrue => ~Unwrap(d).accepted
          /\ (inv.unlock = None \/ Unwrap(d).first # Locked) =>
                /\ Unwrap(d).tasos = 1 /\ Unwrap(d).sleeps = 0 /\ Unwrap(d).polls = 0
                /\ Unwrap(d).last = Unwrap(d).first
          /\ inv.unlock = None => Unwrap(d).trigger = Some(FALSE)
    /\ inv.unlock = None =>
          /\ sent["GetDatabaseHash"] = 0 /\ w.sleeps = 0 /\ w.trigger # Some(TRUE)
          /\ config_file # None => sent["TestAssociate"] <= Len(ConfiguredDatabases)
          /\ AllDatabasesTried => sent["TestAssociate"] = Len(ConfiguredDatabases)

\* C22 witness: with unlock options given, the second database answered
\* TestAssociate with an error other than locked and was recorded failed after
\* that one attempt, with no sleep and no poll; the first had been accepted
C22_Witness ==
    /\ inv.unlock # None /\ AllDatabasesTried /\ Len(ConfiguredDatabases) = 2
    /\ w.log[1] = TasoOkTrue
    /\ Unwrap(w.done).id = 2 /\ ~Unwrap(w.done).accepted
    /\ Unwrap(w.done).first = Some([tag |-> "Err", success |-> None, kind |-> "keepass_error"])
    /\ Unwrap(w.done).tasos = 1 /\ Unwrap(w.done).polls = 0 /\ Unwrap(w.done).sleeps = 0
    /\ sent["TestAssociate"] = 2 /\ sent["GetDatabaseHash"] = 0

\* unlock options with max_retries = 0
Unbounded == inv.unlock # None /\ Unwrap(inv.unlock).max_retries = 0

\* C23: with an unbounded budget, a database that answered TestAssociate as locked
\* is not finished while no poll has succeeded: the waiter is at a sleep or a poll;
\* the counter stays at 0; a database is finished only after a response other
\* than locked, and is accepted when, after a poll that succeeded, TestAssociate
\* answered Ok with success true.
C23_UnboundedBudgetNeverGivesUp ==
    Unbounded =>
       /\ (w.i > 0 /\ w.first = Locked /\ w.okPolls = 0) => pc \in {"sleep", "poll"}
       /\ (w.i > 0 /\ w.last = Locked /\ w.event # "poll_ok") => pc \in {"sleep", "poll"}
       /\ w.remain_retries = 0
       /\ w.event = "poll_ok" => pc = "taso"
       /\ \A d \in {x \in {w.done} : x # None} :
             /\ Unwrap(d).last # Locked
             /\ Unwrap(d).remain_retries = 0
             /\ Unwrap(d).first = Locked => Unwrap(d).okPolls > 0
             /\ Unwrap(d).last = TasoOkTrue => Unwrap(d).accepted

\* C23 witness: three polls have failed, more than any bounded budget drawn, and
\* the waiter is about to sleep again
C23_Witness ==
    /\ Unbounded /\ w.i = 1 /\ w.first = Locked
    /\ w.okPolls = 0 /\ w.polls = 3 /\ w.tasos = 1
    /\ pc = "sleep"

\* C23, second witness: the database was locked, a later poll succeeded, the next
\* TestAssociate succeeded, and the database is among the usable ones
C23_Accepted ==
    /\ Unbounded /\ w.done # None
    /\ Unwrap(w.done).first = Locked /\ Unwrap(w.done).okPolls = 1
    /\ Unwrap(w.done).polls = 2
    /\ Unwrap(w.done).last = TasoOkTrue /\ Unwrap(w.done).accepted
    /\ w.usable # << >>

\* the requests that need the session
SessionMessages == MsgTypes \ {"ChangePublicKeys"}

\* C24: an invocation sends at most one ChangePublicKeys; every other request is
\* sent only after that exchange has returned the public key of the host; when
\* it returns none the invocation fails and has sent nothing else; encrypt,
\* decrypt, caller and erase send nothing at all.
C24_OneSessionBeforeAnyRequest ==
    /\ sent["ChangePublicKeys"] <= 1
    /\ hostKey => sent["ChangePublicKeys"] = 1
    /\ \A t \in SessionMessages : sent[t] > 0 => hostKey
    /\ (sent["ChangePublicKeys"] = 1 /\ ~hostKey) =>
          /\ pc = "exited" /\ IsErr(result)
          /\ \A t \in SessionMessages : sent[t] = 0
    /\ inv.cmd \in {"encrypt", "decrypt", "caller", "erase"} => (sent = NothingSent /\ ~hostKey)

\* C24 witness: configure has exchanged keys once and then sent Associate and
\* CreateNewGroup
C24_Witness ==
    /\ inv.cmd = "configure" /\ hostKey
    /\ sent["ChangePublicKeys"] = 1 /\ sent["Associate"] = 1 /\ sent["CreateNewGroup"] = 1
    /\ pc = "exited" /\ IsOk(result)

\* the readable store holds a database and an empty allow-list
NoCallerForDatabases ==
    /\ store.state = "readable"
    /\ count_databases(store.config) > 0 /\ count_callers(store.config) = 0
\* the subcommands that call verify_caller
Verifies == inv.cmd \in {"configure", "encrypt", "decrypt", "caller", "get", "store"}

\* C25: in the strict-caller build, on a readable store with at least one database
\* and an empty allow-list, every subcommand that verifies the caller fails with
\* caller denied and leaves the store as it is, so the store stays in that state;
\* in the non-strict build verification is skipped in that state.
C25_StrictBuildLocksOut ==
    /\ [][(/\ build.strict /\ NoCallerForDatabases /\ Verifies /\ IsOk(real_main_args)
           /\ pc # "exited" /\ pc' = "exited") =>
             (result' = Err(CallerDenied) /\ store' = store)]_vars
    /\ [][(build.strict /\ NoCallerForDatabases) => store' = store]_vars
    /\ []((~build.strict /\ NoCallerForDatabases /\ ~wrote /\ verified # Running) =>
             verified = Ok(None))

=============================================================================
